---------------------------- MODULE Spec2Model ----------------------------
(***************************************************************************)
(* A model of the face-swap job service:                                   *)
(*   - src/api.py: the job status cache, the feature flag, submission      *)
(*     (swap) and the status queries (get_job_status,                      *)
(*     get_latest_job_status);                                             *)
(*   - src/facefusion/core.py: execute_job and the saga process_swap_job;  *)
(*   - src/facefusion/processors/core.py: the progress file, the stage     *)
(*     counters and the frame dispatch engine multi_process_frames.        *)
(*                                                                         *)
(* Spec          the service: jobs are submitted and run their saga under  *)
(*               job_lock, every call of the saga returning or raising.    *)
(*               The external worker is the subprocess of                  *)
(*               process_swap_job; here it only starts and exits.          *)
(* SpecQuery     the service as its clients see it: flag requests,         *)
(*               submissions and status queries, while the jobs run and    *)
(*               their workers write the progress file.                    *)
(* SpecFair      the service with swapIds, every background task running   *)
(*               to its end.                                               *)
(* SpecDispatch  one run of the worker: the two stages of process_video,   *)
(*               each a call of multi_process_frames with its chunks       *)
(*               running concurrently on the thread pool.                  *)
(* SpecChunks    the chunk-building loop of multi_process_frames alone,    *)
(*               over every input order, worker count and batch size.      *)
(* SpecPercent   one update_progress call, every stage and frame count.    *)
(* SpecCache     submissions and status queries alone, with more jobs      *)
(*               waiting than the status cache holds.                      *)
(***************************************************************************)
EXTENDS Integers, Sequences, FiniteSets

(***************************************************************************)
(* Bounds of the model.                                                    *)
(***************************************************************************)
MaxJobs == 2          \* jobs submitted in one run of the service
MaxFaces == 1         \* source/reference pairs of one job
MaxCredits == 1       \* largest value check_and_hold_user_credits returns
MaxProgressUnits == 1 \* units per stage of the external worker seen by Spec
MaxStageUnits == 2    \* frames of the video in SpecDispatch
MaxStageWorkers == 2  \* execution_thread_count in SpecDispatch
MaxUnits == 4         \* frames handed to multi_process_frames in SpecChunks
MaxWorkers == 3       \* execution_thread_count in SpecChunks
MaxBatch == 2         \* execution_queue_count in SpecChunks
MaxSwapIds == 1       \* distinct swapId values carried by requests in SpecFair
MaxFrames == 50       \* frames of the video whose progress values are computed
MaxSubmissions == 11  \* jobs submitted in SpecCache, one more than the cache holds
MaxPolled == 2        \* the ids 1..MaxPolled are the ones polled in SpecCache

\* The constants of src/api.py line 44: jobs = TTLCache(maxsize=10, ttl=172800).
maxsize == 10

\* threading.Lock() of core.py, not held.
NoJob == 0

\* Python's None for credits_required, and a value v.
None == <<>>
Some(v) == <<v>>

\* Python truthiness of credits_required: None and 0 are falsy.
Truthy(c) == c # None /\ c[1] # 0

\* The values check_and_hold_user_credits may return.
HoldValues == 0..MaxCredits

\* The exceptions a collaborator call may raise: CustomException is handled
\* by the first except clause, anything else by the second.
ExcKinds == {"CustomException", "Exception"}

\* The three uploads of the publish step.
Uploads == {"preview", "thumbnail", "output"}

(***************************************************************************)
(* Python floats are IEEE 754 binary64 numbers.  A positive float is       *)
(* modelled by its significand, a sequence of at most Precision binary     *)
(* digits that starts with 1, and the exponent e of its first digit: the   *)
(* value is the sum of bits[i] * 2^(e - i + 1).  Zero has no digits.       *)
(* Every operation rounds its exact result to the nearest float, ties to   *)
(* the even significand.                                                   *)
(***************************************************************************)
Precision == 53

Zero == [bits |-> <<>>, e |-> 0]

\* The binary digits of a natural number below 2^30, most significant first.
Bits(n) ==
    LET w == CHOOSE h \in 0..30 : n < 2^h /\ \A g \in 0..(h - 1) : n >= 2^g
    IN  [i \in 1..w |-> (n \div 2^(w - i)) % 2]

\* The number a short sequence of binary digits stands for.
RECURSIVE Value(_)
Value(b) ==
    IF b = <<>> THEN 0
    ELSE 2 * Value(SubSeq(b, 1, Len(b) - 1)) + b[Len(b)]

(***************************************************************************)
(* Exact arithmetic on the significands, which do not fit a machine        *)
(* integer of the model checker: a natural number is held as its digits in *)
(* base 2^LimbBits, least significant first.                               *)
(***************************************************************************)
LimbBits == 18
Base == 2^LimbBits

\* The limbs of the number with binary digits `bits`.
BigOfBits(bits) ==
    LET n == (Len(bits) + LimbBits - 1) \div LimbBits
        padded == [i \in 1..(n * LimbBits - Len(bits)) |-> 0] \o bits
    IN  [j \in 1..n |->
            Value(SubSeq(padded, (n - j) * LimbBits + 1, (n - j + 1) * LimbBits))]

\* The binary digits of a number held in limbs, without leading zeros.
BitsOfBig(big) ==
    LET n == Len(big)
        all == [i \in 1..(n * LimbBits) |->
                   (big[n - ((i - 1) \div LimbBits)]
                       \div 2^(LimbBits - 1 - ((i - 1) % LimbBits))) % 2]
        ones == {i \in 1..(n * LimbBits) : all[i] = 1}
    IN  IF ones = {} THEN <<>>
        ELSE SubSeq(all, CHOOSE i \in ones : \A h \in ones : i <= h, n * LimbBits)

\* a * n + carry for a number a in limbs and naturals n, carry below 2^12.
RECURSIVE BigTimes(_, _, _)
BigTimes(a, n, carry) ==
    IF a = <<>> THEN (IF carry = 0 THEN <<>> ELSE <<carry>>)
    ELSE <<(a[1] * n + carry) % Base>>
             \o BigTimes(Tail(a), n, (a[1] * n + carry) \div Base)

\* a + b + carry for numbers a, b in limbs.
RECURSIVE BigAdd(_, _, _)
BigAdd(a, b, carry) ==
    IF a = <<>> /\ b = <<>> THEN (IF carry = 0 THEN <<>> ELSE <<carry>>)
    ELSE LET da == IF a = <<>> THEN 0 ELSE a[1]
             db == IF b = <<>> THEN 0 ELSE b[1]
             ra == IF a = <<>> THEN a ELSE Tail(a)
             rb == IF b = <<>> THEN b ELSE Tail(b)
         IN  <<(da + db + carry) % Base>>
                 \o BigAdd(ra, rb, (da + db + carry) \div Base)

\* The float nearest to the number with digits `bits` (first digit 1, of
\* exponent e).
Round(bits, e) ==
    IF Len(bits) <= Precision THEN [bits |-> bits, e |-> e]
    ELSE LET kept == SubSeq(bits, 1, Precision)
             guard == bits[Precision + 1]
             sticky == \E i \in (Precision + 2)..Len(bits) : bits[i] = 1
             up == guard = 1 /\ (sticky \/ kept[Precision] = 1)
             inc == BitsOfBig(BigAdd(BigOfBits(kept), <<1>>, 0))
         IN  IF ~up THEN [bits |-> kept, e |-> e]
             ELSE IF Len(inc) > Precision
                  THEN [bits |-> SubSeq(inc, 1, Precision), e |-> e + 1]
                  ELSE [bits |-> inc, e |-> e]

\* 2^i modulo t, for i up to 60.
Pow2Mod(i, t) ==
    IF i <= 30 THEN (2^i) % t
    ELSE (((2^30) % t) * ((2^(i - 30)) % t)) % t

\* The first n binary digits of r / t for t <= r < 2t, by long division,
\* followed by one digit that tells whether a remainder is left.
Quotient(r, t, n) ==
    [i \in 1..(n + 1) |->
        IF i = 1 THEN 1
        ELSE IF i <= n THEN (2 * (((r - t) * Pow2Mod(i - 2, t)) % t)) \div t
        ELSE IF ((r - t) * Pow2Mod(n - 1, t)) % t # 0 THEN 1 ELSE 0]

\* current / total for naturals 0 <= current <= total, total > 0.
Divide(c, t) ==
    IF c = 0 THEN Zero
    ELSE LET k == CHOOSE h \in 0..30 :
                      c * 2^h >= t /\ \A g \in 0..(h - 1) : c * 2^g < t
         IN  Round(Quotient(c * 2^k, t, Precision + 1), 0 - k)

\* x * n for a float x and a natural n, 0 < n < 2^12.
Multiply(x, n) ==
    IF x = Zero THEN Zero
    ELSE LET p == BitsOfBig(BigTimes(BigOfBits(x.bits), n, 0))
         IN  Round(p, x.e - Len(x.bits) + Len(p))

\* n + x for a natural n > 0 and a float x whose last digit has an exponent
\* of at most 0.
Plus(n, x) ==
    IF x = Zero THEN Round(Bits(n), Len(Bits(n)) - 1)
    ELSE LET last == x.e - (Len(x.bits) - 1)
             shifted == Bits(n) \o [i \in 1..(0 - last) |-> 0]
             sum == BitsOfBig(BigAdd(BigOfBits(shifted), BigOfBits(x.bits), 0))
         IN  Round(sum, last + Len(sum) - 1)

\* int(x) for a float x >= 0: the digits in front of the binary point.
int_of_float(x) ==
    IF x = Zero \/ x.e < 0 THEN 0
    ELSE Value(SubSeq(x.bits, 1, x.e + 1))

\* face_progress = current / total if total else 0
face_progress(current, total) ==
    IF total # 0 THEN Divide(current, total) ELSE Zero

(***************************************************************************)
(* unified_progress_line: the progress value of one stage,                 *)
(* int(face_progress * 50) for the swapper, int(50 + face_progress * 50)   *)
(* for the enhancer and 0 for any other stage.                             *)
(***************************************************************************)
Percent(stage, current, total) ==
    IF stage = "swapper"
    THEN int_of_float(Multiply(face_progress(current, total), 50))
    ELSE IF stage = "enhancer"
    THEN int_of_float(Plus(50, Multiply(face_progress(current, total), 50)))
    ELSE 0

(***************************************************************************)
(* The text of the progress file is a sequence of characters; the only     *)
(* characters written are the decimal digits, held as the numbers 0..9.    *)
(***************************************************************************)
\* str(percent) for percent >= 0.
RECURSIVE str(_)
str(n) == IF n < 10 THEN <<n>> ELSE Append(str(n \div 10), n % 10)

\* int(text) for a text of digits; int("") raises ValueError.
RECURSIVE int(_)
int(text) ==
    IF Len(text) = 1 THEN text[1]
    ELSE 10 * int(SubSeq(text, 1, Len(text) - 1)) + text[Len(text)]

VARIABLES
    \* ---- src/api.py ----
    n_submitted,         \* number of job ids handed out (uuid4 is fresh)
    jobs,                \* the status cache: job id -> status, "ABSENT" if no entry
    jobs_keys,           \* list(jobs.keys()): the ids in the order of their last write
    jobs_links,          \* the cached ids in the order of their last use, oldest first
    faces,               \* len(params["faces"]) of each submitted job
    swapId,              \* params.get("swapId") of each submitted job, or None
    enable_face_enhance, \* the global flag of api.py
    response,            \* the response returned by the step just taken
    \* ---- src/facefusion/core.py ----
    job_lock,            \* the job holding job_lock, or NoJob
    proc,                \* per job: position and locals of execute_job / process_swap_job
    swap_status_local,   \* last argument of update_swap_status_local
    obs,                 \* per job: what the collaborators and the file system saw
    \* ---- src/facefusion/processors/core.py ----
    progress_file,       \* temp/unified_progress.txt: None or Some(its text)
    last_written,        \* per job: last value its worker wrote, 0 if none
    expected_progress,   \* last_written of the job the status query just asked about
    \* ---- the external worker: process_video / multi_process_frames ----
    temp_frame_paths,    \* the frame files, by base name, in the order they were listed
    execution_thread_count,
    execution_queue_count,
    unified_state,       \* the stage and the per-stage counters
    queue_payloads,      \* local of multi_process_frames
    queue,               \* local of multi_process_frames: the payloads not yet picked
    queue_per_future,    \* local of multi_process_frames
    futures,             \* the chunks submitted to the pool, in submission order
    mpf_pc               \* position of the worker's main thread

requestVars == <<faces, swapId, enable_face_enhance>>
serviceVars == <<n_submitted, jobs, jobs_keys, jobs_links, requestVars, job_lock, proc,
                 swap_status_local, obs,
                 progress_file, last_written>>
queryVars == <<response, expected_progress>>
inputVars == <<temp_frame_paths, execution_thread_count, execution_queue_count>>
workerVars == <<inputVars, unified_state, queue_payloads, queue, queue_per_future,
                futures, mpf_pc>>

vars == <<serviceVars, queryVars, workerVars>>

\* The ids of the jobs submitted so far: uuid4 ids are fresh, and the model
\* numbers them in the order of submission.  The per-job variables are
\* sequences with one entry per submitted job.
Jobs == 1..n_submitted

Collaborators == {"register_doc", "hold", "register_error", "refund", "ledger",
                  "deduct"}

\* The ephemeral files of a job.
TargetFile == <<"target", 0>>
SourceFile(i) == <<"source", i>>
ReferenceFile(i) == <<"ref", i>>
OutputFile == <<"output", 0>>
PreviewFile == <<"preview", 0>>
ThumbnailFile == <<"thumbnail", 0>>
Files == {TargetFile, OutputFile, PreviewFile, ThumbnailFile}
         \cup {SourceFile(i) : i \in 1..MaxFaces}
         \cup {ReferenceFile(i) : i \in 1..MaxFaces}

NoResponse == [kind |-> "none"]

\* The values the external worker writes: every stage, every completed count.
ProgressValues ==
    {Percent(s, c, MaxProgressUnits) : s \in {"swapper", "enhancer"},
                                       c \in 1..MaxProgressUnits}

(***************************************************************************)
(* process_swap_job starts with credits_required = None and an empty       *)
(* temp_files_to_clean; nothing is submitted and the progress file does    *)
(* not exist.                                                              *)
(***************************************************************************)
InitProc ==
    [pc |-> "idle", credits_required |-> None, temp_files_to_clean |-> <<>>,
     face_i |-> 0, clean_i |-> 0, exc |-> "none", failed_at |-> "none",
     status_code |-> 0]

InitObs ==
    [attempts |-> [c \in Collaborators |-> 0],
     calls |-> [c \in Collaborators |-> 0],
     processors |-> {},
     upload |-> [u \in Uploads |-> "none"],
     created |-> {},
     removed |-> [f \in Files |-> 0],
     remove_raised |-> FALSE]

InitService ==
    /\ n_submitted = 0
    /\ jobs = <<>>
    /\ jobs_keys = <<>>
    /\ jobs_links = <<>>
    /\ faces = <<>>
    /\ swapId = <<>>
    /\ enable_face_enhance = TRUE
    /\ response = NoResponse
    /\ expected_progress = 0
    /\ job_lock = NoJob
    /\ proc = <<>>
    /\ swap_status_local = "none"
    /\ obs = <<>>
    /\ progress_file = None
    /\ last_written = <<>>

\* unified_state as the module defines it (lines 60-66).
InitUnifiedState ==
    [swapper_total |-> 0, swapper_current |-> 0, enhancer_total |-> 0,
     enhancer_current |-> 0, stage |-> "swapper"]

\* The worker's locals before multi_process_frames is called.
InitWorkerLocals ==
    /\ unified_state = InitUnifiedState
    /\ queue_payloads = <<>>
    /\ queue = <<>>
    /\ queue_per_future = 0
    /\ futures = <<>>

\* In Spec the external worker is seen only through the progress file.
WorkerNotModelled ==
    /\ temp_frame_paths = <<>>
    /\ execution_thread_count = 1
    /\ execution_queue_count = 1
    /\ InitWorkerLocals
    /\ mpf_pc = "off"


(***************************************************************************)
(* Steps of process_swap_job.  A collaborator call either returns or       *)
(* raises; what it does beyond that is outside the repository.             *)
(***************************************************************************)

\* A step that is no request handler returns no response.
NoReply ==
    /\ response' = NoResponse
    /\ expected_progress' = 0

\* What a step of process_swap_job leaves alone.
SagaFrame ==
    /\ UNCHANGED <<n_submitted, jobs, jobs_keys, jobs_links, requestVars, job_lock,
                   progress_file,
                   last_written>>
    /\ UNCHANGED workerVars
    /\ NoReply

\* A call of collaborator c by job j that returns normally.
Returns(j, c) ==
    obs' = [obs EXCEPT ![j].attempts[c] = @ + 1, ![j].calls[c] = @ + 1]

\* A call of collaborator c by job j that raises.
Raises(j, c) ==
    obs' = [obs EXCEPT ![j].attempts[c] = @ + 1]

\* An exception of kind k raised at step `at` inside the try body: control
\* goes to the matching except clause, whose first statement is register_error.
ToHandler(j, at, k) ==
    [proc EXCEPT ![j].pc = "handle_register_error", ![j].exc = k,
                 ![j].failed_at = at]

\* An exception raised inside an except clause: no clause of the same try
\* catches it, the finally block runs and the exception leaves the function.
Escapes(j) ==
    [proc EXCEPT ![j].pc = "finally", ![j].exc = "escaped", ![j].clean_i = 1]

At(j, p) == proc[j].pc = p

\* register_video_swap_document(user_id, swap_doc_id, params["faces"], project_id)
RegisterDocument(j) ==
    /\ At(j, "register_doc")
    /\ \/ /\ Returns(j, "register_doc")
          /\ proc' = [proc EXCEPT ![j].pc = "hold"]
       \/ \E k \in ExcKinds :
          /\ Raises(j, "register_doc")
          /\ proc' = ToHandler(j, "register_doc", k)
    /\ UNCHANGED swap_status_local
    /\ SagaFrame

\* credits_required = check_and_hold_user_credits(user_id, swap_doc_id, 0, project_id)
HoldCredits(j) ==
    /\ At(j, "hold")
    /\ \/ \E v \in HoldValues :
          /\ Returns(j, "hold")
          /\ proc' = [proc EXCEPT ![j].pc = "fetch_target",
                                  ![j].credits_required = Some(v)]
       \/ \E k \in ExcKinds :
          /\ Raises(j, "hold")
          /\ proc' = ToHandler(j, "hold", k)
    /\ UNCHANGED swap_status_local
    /\ SagaFrame

\* The position after the faces loop has handled face i.
AfterFace(j, i) ==
    IF i < faces[j]
    THEN [proc EXCEPT ![j].pc = "fetch_source", ![j].face_i = i + 1]
    ELSE [proc EXCEPT ![j].pc = "transform"]

\* download_file_from_url(target_url, original_video_path)
FetchTarget(j) ==
    /\ At(j, "fetch_target")
    /\ \/ /\ obs' = [obs EXCEPT ![j].created = @ \cup {TargetFile}]
          /\ proc' = AfterFace(j, 0)
       \/ \E k \in ExcKinds :
          /\ proc' = ToHandler(j, "fetch_target", k)
          /\ UNCHANGED obs
    /\ UNCHANGED swap_status_local
    /\ SagaFrame

\* download_file_from_url(face["source"], source_path)
FetchSource(j) ==
    /\ At(j, "fetch_source")
    /\ \/ /\ obs' = [obs EXCEPT ![j].created = @ \cup {SourceFile(proc[j].face_i)}]
          /\ proc' = [proc EXCEPT ![j].pc = "fetch_reference"]
       \/ \E k \in ExcKinds :
          /\ proc' = ToHandler(j, "fetch_source", k)
          /\ UNCHANGED obs
    /\ UNCHANGED swap_status_local
    /\ SagaFrame

\* download_file_from_url(face["target"], reference_path)
FetchReference(j) ==
    /\ At(j, "fetch_reference")
    /\ \/ /\ obs' = [obs EXCEPT ![j].created = @ \cup {ReferenceFile(proc[j].face_i)}]
          /\ proc' = AfterFace(j, proc[j].face_i)
       \/ \E k \in ExcKinds :
          /\ proc' = ToHandler(j, "fetch_reference", k)
          /\ UNCHANGED obs
    /\ UNCHANGED swap_status_local
    /\ SagaFrame

\* The processors cmd names (line 104); env["ENABLE_FACE_ENHANCE"] is "1".
CmdProcessors == {"face_swapper", "face_enhancer"}

\* subprocess.Popen(cmd, ...): the external worker starts, or Popen raises.
TransformStart(j) ==
    /\ At(j, "transform")
    /\ \/ /\ proc' = [proc EXCEPT ![j].pc = "transforming"]
          /\ obs' = [obs EXCEPT ![j].processors = CmdProcessors]
       \/ /\ proc' = ToHandler(j, "transform", "Exception")
          /\ UNCHANGED obs
    /\ UNCHANGED swap_status_local
    /\ SagaFrame

\* The external worker of job j reports progress: write_progress_tempfile(p).
WorkerWrite(j) ==
    /\ At(j, "transforming")
    /\ \E p \in ProgressValues :
          /\ progress_file' = Some(str(p))
          /\ last_written' = [last_written EXCEPT ![j] = p]
    /\ UNCHANGED <<n_submitted, jobs, jobs_keys, jobs_links, requestVars, job_lock, proc,
                   swap_status_local, obs>>
    /\ NoReply
    /\ UNCHANGED workerVars

\* Mutant of TransformExit: job_lock guards the transformation only and is
\* released when the external worker has exited.
TransformExit_ReleasesLock(j) ==
    /\ At(j, "transforming")
    /\ \/ /\ obs' = [obs EXCEPT ![j].created = @ \cup {OutputFile}]
          /\ proc' = [proc EXCEPT ![j].pc = "preview"]
       \/ /\ proc' = ToHandler(j, "transform", "Exception")
          /\ UNCHANGED obs
    /\ job_lock' = NoJob
    /\ UNCHANGED <<n_submitted, jobs, jobs_keys, jobs_links, requestVars, swap_status_local,
                   progress_file,
                   last_written>>
    /\ NoReply
    /\ UNCHANGED workerVars

\* process.wait(), then: if process.returncode != 0: raise Exception(...)
TransformExit(j) ==
    /\ At(j, "transforming")
    /\ \/ /\ obs' = [obs EXCEPT ![j].created = @ \cup {OutputFile}]
          /\ proc' = [proc EXCEPT ![j].pc = "preview"]
       \/ /\ proc' = ToHandler(j, "transform", "Exception")
          /\ UNCHANGED obs
    /\ UNCHANGED swap_status_local
    /\ SagaFrame

\* preview_webm_path = create_webm_from_video(output_path, preview_thumbnail_path)
CreatePreview(j) ==
    /\ At(j, "preview")
    /\ \/ /\ obs' = [obs EXCEPT ![j].created = @ \cup {PreviewFile, ThumbnailFile}]
          /\ proc' = [proc EXCEPT ![j].pc = "upload"]
       \/ \E k \in ExcKinds :
          /\ proc' = ToHandler(j, "preview", k)
          /\ UNCHANGED obs
    /\ UNCHANGED swap_status_local
    /\ SagaFrame

\* Mutant of UploadFiles: the results of the uploads are not looked at.
UploadFiles_IgnoresFailure(j) ==
    /\ At(j, "upload")
    /\ \E outcome \in [Uploads -> {"ok", "failed"}] :
          /\ obs' = [obs EXCEPT ![j].upload = outcome]
          /\ proc' = [proc EXCEPT ![j].pc = "ledger"]
    /\ UNCHANGED swap_status_local
    /\ SagaFrame

(***************************************************************************)
(* The three uploads run on their own pool; the three result() calls and   *)
(* the pool's shutdown wait for all of them.  The first result() of a      *)
(* failed upload re-raises its exception.                                  *)
(***************************************************************************)
UploadFiles(j) ==
    /\ At(j, "upload")
    /\ \E outcome \in [Uploads -> {"ok", "failed"}] :
          /\ obs' = [obs EXCEPT ![j].upload = outcome]
          /\ IF \A u \in Uploads : outcome[u] = "ok"
             THEN proc' = [proc EXCEPT ![j].pc = "ledger"]
             ELSE \E k \in ExcKinds : proc' = ToHandler(j, "upload", k)
    /\ UNCHANGED swap_status_local
    /\ SagaFrame

\* update_video_swap_document(user_id, result_url, swap_doc_id, ...)
UpdateDocument(j) ==
    /\ At(j, "ledger")
    /\ \/ /\ Returns(j, "ledger")
          /\ proc' = [proc EXCEPT ![j].pc = "deduct"]
       \/ \E k \in ExcKinds :
          /\ Raises(j, "ledger")
          /\ proc' = ToHandler(j, "ledger", k)
    /\ UNCHANGED swap_status_local
    /\ SagaFrame

\* Mutant of DeductCredits: the deduct call is left out of the success path.
DeductCredits_Skipped(j) ==
    /\ At(j, "deduct")
    /\ proc' = [proc EXCEPT ![j].pc = "mark_completed"]
    /\ UNCHANGED <<swap_status_local, obs>>
    /\ SagaFrame

\* deduct_user_credits(user_id, credits_required, project_id)
DeductCredits(j) ==
    /\ At(j, "deduct")
    /\ \/ /\ Returns(j, "deduct")
          /\ proc' = [proc EXCEPT ![j].pc = "mark_completed"]
       \/ \E k \in ExcKinds :
          /\ Raises(j, "deduct")
          /\ proc' = ToHandler(j, "deduct", k)
    /\ UNCHANGED swap_status_local
    /\ SagaFrame

\* update_swap_status_local('completed')
MarkCompleted(j) ==
    /\ At(j, "mark_completed")
    /\ \/ /\ swap_status_local' = "completed"
          /\ proc' = [proc EXCEPT ![j].pc = "success_return"]
       \/ \E k \in ExcKinds :
          /\ proc' = ToHandler(j, "mark_completed", k)
          /\ UNCHANGED swap_status_local
    /\ UNCHANGED obs
    /\ SagaFrame

\* The list line 165 of core.py builds.
AllTempFiles(j) ==
    <<TargetFile>>
    \o [i \in 1..faces[j] |-> SourceFile(i)]
    \o [i \in 1..faces[j] |-> ReferenceFile(i)]
    \o <<OutputFile, PreviewFile, ThumbnailFile>>

\* temp_files_to_clean.extend([...]); return {...}, 200
SuccessReturn(j) ==
    /\ At(j, "success_return")
    /\ proc' = [proc EXCEPT ![j].pc = "finally", ![j].clean_i = 1,
                            ![j].temp_files_to_clean = @ \o AllTempFiles(j),
                            ![j].status_code = 200]
    /\ UNCHANGED <<swap_status_local, obs>>
    /\ SagaFrame


(***************************************************************************)
(* The except clauses (lines 168-180).  Both run the same three calls and  *)
(* differ in the status code they return: 400 for CustomException, 500     *)
(* for any other exception.                                                *)
(***************************************************************************)

\* register_error(user_id, swap_doc_id, {"error": ...}, project_id)
HandleRegisterError(j) ==
    /\ At(j, "handle_register_error")
    /\ \/ /\ Returns(j, "register_error")
          /\ proc' = [proc EXCEPT ![j].pc = "handle_refund"]
       \/ /\ Raises(j, "register_error")
          /\ proc' = Escapes(j)
    /\ UNCHANGED swap_status_local
    /\ SagaFrame

\* if credits_required: refund_user_credits(user_id, credits_required, project_id)
HandleRefund(j) ==
    /\ At(j, "handle_refund")
    /\ IF Truthy(proc[j].credits_required)
       THEN \/ /\ Returns(j, "refund")
               /\ proc' = [proc EXCEPT ![j].pc = "handle_mark_failed"]
            \/ /\ Raises(j, "refund")
               /\ proc' = Escapes(j)
       ELSE /\ proc' = [proc EXCEPT ![j].pc = "handle_mark_failed"]
            /\ UNCHANGED obs
    /\ UNCHANGED swap_status_local
    /\ SagaFrame

\* update_swap_status_local('failed'); return {"error": ...}, 400 or 500
HandleMarkFailed(j) ==
    /\ At(j, "handle_mark_failed")
    /\ \/ /\ swap_status_local' = "failed"
          /\ proc' = [proc EXCEPT
                         ![j].pc = "finally", ![j].clean_i = 1,
                         ![j].status_code =
                             IF proc[j].exc = "CustomException" THEN 400 ELSE 500]
       \/ /\ proc' = Escapes(j)
          /\ UNCHANGED swap_status_local
    /\ UNCHANGED obs
    /\ SagaFrame

(***************************************************************************)
(* The finally block (lines 182-187): one remove_file per entry of         *)
(* temp_files_to_clean, an exception of remove_file swallowed.             *)
(***************************************************************************)
CleanupDone(j) == proc[j].clean_i > Len(proc[j].temp_files_to_clean)

\* Mutant of RemoveTempFile: no try/except around remove_file, its exception
\* leaves the loop and process_swap_job.
RemoveTempFile_NoExcept(j) ==
    /\ At(j, "finally")
    /\ ~CleanupDone(j)
    /\ LET f == proc[j].temp_files_to_clean[proc[j].clean_i] IN
       \/ /\ obs' = [obs EXCEPT ![j].removed[f] = @ + 1]
          /\ proc' = [proc EXCEPT ![j].clean_i = @ + 1]
       \/ /\ obs' = [obs EXCEPT ![j].removed[f] = @ + 1, ![j].remove_raised = TRUE]
          /\ proc' = [proc EXCEPT
                         ![j].clean_i = Len(proc[j].temp_files_to_clean) + 1,
                         ![j].status_code = 0]
    /\ UNCHANGED swap_status_local
    /\ SagaFrame

RemoveTempFile(j) ==
    /\ At(j, "finally")
    /\ ~CleanupDone(j)
    /\ LET f == proc[j].temp_files_to_clean[proc[j].clean_i] IN
       \/ obs' = [obs EXCEPT ![j].removed[f] = @ + 1]
       \/ obs' = [obs EXCEPT ![j].removed[f] = @ + 1, ![j].remove_raised = TRUE]
    /\ proc' = [proc EXCEPT ![j].clean_i = @ + 1]
    /\ UNCHANGED swap_status_local
    /\ SagaFrame

(***************************************************************************)
(* execute_job (lines 189-200): the whole of process_swap_job runs inside  *)
(* `with job_lock`.                                                        *)
(***************************************************************************)
\* Mutant of JobLockFree: execute_job runs without taking the lock.
JobLockFree_Always == TRUE

JobLockFree == job_lock = NoJob

\* The background task has ended: the locals of process_swap_job are gone.
EndedProc(how) == [InitProc EXCEPT !.pc = how]

\* with job_lock: ... response, status_code = process_swap_job(params)
ExecuteJobEnter(j) ==
    /\ At(j, "scheduled")
    /\ JobLockFree
    /\ job_lock' = j
    /\ proc' = [proc EXCEPT ![j].pc = "register_doc"]
    /\ UNCHANGED <<n_submitted, jobs, jobs_keys, jobs_links, requestVars, swap_status_local,
                   obs,
                   progress_file, last_written>>
    /\ NoReply
    /\ UNCHANGED workerVars

\* TTLCache.__setitem__ puts the key's link at the tail of the cache's list,
\* which is the order keys() iterates in: a key written again moves to the end.
Rewritten(keys, k) == SelectSeq(keys, LAMBDA x : x # k) \o <<k>>

\* The key TTLCache.__setitem__ discards to make room for a key the cache does
\* not hold when it is full: popitem() removes the least recently used key.
\* NoJob when nothing is discarded.  (No entry expires: ttl is two days.)
Victim(key) ==
    IF /\ \A i \in 1..Len(jobs_links) : jobs_links[i] # key
       /\ Len(jobs_links) >= maxsize
    THEN jobs_links[1] ELSE NoJob

\* jobs[key] = value, where `entries` are the statuses before the write.
cache_setitem(entries, key, value) ==
    /\ jobs' = [j \in DOMAIN entries |->
                   IF j = key THEN value
                   ELSE IF j = Victim(key) THEN "ABSENT"
                   ELSE entries[j]]
    /\ jobs_keys' = Rewritten(SelectSeq(jobs_keys, LAMBDA x : x # Victim(key)), key)
    /\ jobs_links' = Rewritten(SelectSeq(jobs_links, LAMBDA x : x # Victim(key)), key)

\* process_swap_job returned: jobs[job_id] = {"status": ...}, and the lock is released.
ExecuteJobFinish(j) ==
    /\ At(j, "finally")
    /\ CleanupDone(j)
    /\ proc[j].status_code # 0
    /\ cache_setitem(jobs, j, IF proc[j].status_code = 200
                              THEN "COMPLETED" ELSE "FAILED")
    /\ job_lock' = NoJob
    /\ proc' = [proc EXCEPT ![j] = EndedProc("done")]
    /\ UNCHANGED <<n_submitted, requestVars, swap_status_local, obs, progress_file,
                   last_written>>
    /\ NoReply
    /\ UNCHANGED workerVars

\* process_swap_job raised: the with statement releases the lock and the
\* exception ends the background task; jobs[job_id] is not written.
ExecuteJobUnwind(j) ==
    /\ At(j, "finally")
    /\ CleanupDone(j)
    /\ proc[j].status_code = 0
    /\ job_lock' = NoJob
    /\ proc' = [proc EXCEPT ![j] = EndedProc("crashed")]
    /\ UNCHANGED <<n_submitted, jobs, jobs_keys, jobs_links, requestVars, swap_status_local,
                   obs,
                   progress_file, last_written>>
    /\ NoReply
    /\ UNCHANGED workerVars

(***************************************************************************)
(* src/api.py                                                              *)
(***************************************************************************)
FaceCounts == 1..MaxFaces

\* POST /set_face_enhance
set_face_enhance(enable) ==
    /\ enable_face_enhance' = enable
    /\ response' = [kind |-> "enable_face_enhance", value |-> enable]
    /\ expected_progress' = 0
    /\ UNCHANGED <<n_submitted, jobs, jobs_keys, jobs_links, faces, swapId, job_lock, proc,
                   swap_status_local, obs, progress_file, last_written>>
    /\ UNCHANGED workerVars

\* The swapId values a request may carry.
SwapIds == {Some(s) : s \in 1..MaxSwapIds}

\* A request whose parameters have no "faces" key.
NoFaces == 0 - 1

\* Mutant of swap: the job id is not fresh, every submission uses the same id.
swap_ReusesJobId(n, swap_doc_id) ==
    /\ LET job_id == 1 IN
       /\ n_submitted' = n_submitted + 1
       /\ cache_setitem(Append(jobs, "ABSENT"), job_id, "IN_PROGRESS")
       /\ faces' = [Append(faces, 0) EXCEPT ![job_id] = n]
       /\ swapId' = [Append(swapId, None) EXCEPT ![job_id] = swap_doc_id]
       /\ obs' = Append(obs, InitObs)
       /\ last_written' = Append(last_written, 0)
       /\ proc' = [Append(proc, InitProc) EXCEPT ![job_id].pc = "scheduled"]
       /\ response' = [kind |-> "jobId", job |-> job_id]
    /\ expected_progress' = 0
    /\ UNCHANGED <<enable_face_enhance, job_lock, swap_status_local, progress_file>>
    /\ UNCHANGED workerVars

\* POST /swap with a faces list of n entries, or without one (NoFaces), and
\* the given swapId (or None).  Line 68 writes the cache entry; line 75,
\* set_total_faces(len(params["faces"])), raises KeyError when the request has
\* no faces list, before line 76 schedules execute_job.
swap(n, swap_doc_id) ==
    /\ LET job_id == n_submitted + 1 IN
       /\ n_submitted' = job_id
       /\ cache_setitem(Append(jobs, "ABSENT"), job_id, "IN_PROGRESS")
       /\ faces' = Append(faces, IF n = NoFaces THEN 0 ELSE n)
       /\ swapId' = Append(swapId, swap_doc_id)
       /\ obs' = Append(obs, InitObs)
       /\ last_written' = Append(last_written, 0)
       /\ IF n = NoFaces
          THEN /\ proc' = Append(proc, InitProc)
               /\ response' = [kind |-> "error", code |-> 500]
          ELSE /\ proc' = Append(proc, [InitProc EXCEPT !.pc = "scheduled"])
               /\ response' = [kind |-> "jobId", job |-> job_id]
    /\ expected_progress' = 0
    /\ UNCHANGED <<enable_face_enhance, job_lock, swap_status_local, progress_file>>
    /\ UNCHANGED workerVars

\* The try block of read_progress_tempfile, lines 84-87: open raises when
\* the file does not exist, int raises on an empty text.
ReadAttempt ==
    IF progress_file = None THEN [exc |-> "FileNotFoundError", value |-> 0]
    ELSE IF progress_file[1] = <<>> THEN [exc |-> "ValueError", value |-> 0]
    ELSE [exc |-> "none", value |-> int(progress_file[1])]

\* read_progress_tempfile(): the file's value; lines 88-90 print any exception
\* and return 0.
read_progress_tempfile ==
    IF ReadAttempt.exc # "none" THEN 0 ELSE ReadAttempt.value

\* The "output" of a job's cache entry: execute_job stores the response of
\* process_swap_job, {"output": ...} with code 200 and {"error": message}
\* otherwise; the entry swap writes has no such key.
JobOutput(status) ==
    IF status = "COMPLETED" THEN "output"
    ELSE IF status = "FAILED" THEN "error"
    ELSE "absent"

\* The status held for an id, "ABSENT" when the cache has no entry for it.
StatusOf(job_id) == IF job_id \in Jobs THEN jobs[job_id] ELSE "ABSENT"

\* What a status query leaves alone.
QueryFrame ==
    UNCHANGED <<n_submitted, jobs, jobs_keys, requestVars, job_lock, proc,
                swap_status_local, obs, progress_file, last_written, workerVars>>

\* Mutant of get_job_status: the entry is read without the membership test.
get_job_status_Unchecked(job_id) ==
    /\ response' =
         [kind |-> "status", job |-> job_id, status |-> StatusOf(job_id),
          output |-> JobOutput(StatusOf(job_id)),
          progress |-> read_progress_tempfile]
    /\ expected_progress' = IF job_id \in Jobs THEN last_written[job_id] ELSE 0
    /\ UNCHANGED jobs_links
    /\ QueryFrame

\* GET /status/{job_id}.  `job_id in jobs` leaves the order of use alone;
\* jobs[job_id] (TTLCache.__getitem__) makes the key the most recently used.
get_job_status(job_id) ==
    /\ IF StatusOf(job_id) # "ABSENT"
       THEN /\ response' =
                 [kind |-> "status", job |-> job_id, status |-> jobs[job_id],
                  output |-> JobOutput(jobs[job_id]),
                  progress |-> read_progress_tempfile]
            /\ expected_progress' = last_written[job_id]
            /\ jobs_links' = Rewritten(jobs_links, job_id)
       ELSE /\ response' = [kind |-> "error", code |-> 404]
            /\ expected_progress' = 0
            /\ UNCHANGED jobs_links
    /\ QueryFrame

\* GET /status: the status of the last key of the cache, or the idle indicator.
get_latest_job_status ==
    IF jobs_keys # <<>>
    THEN get_job_status(jobs_keys[Len(jobs_keys)])
    ELSE /\ response' = [kind |-> "idle"]
         /\ expected_progress' = 0
         /\ UNCHANGED <<serviceVars, workerVars>>

Init == InitService /\ WorkerNotModelled

Next ==
    \/ \E n \in FaceCounts : n_submitted < MaxJobs /\ swap(n, None)
    \/ n_submitted < MaxJobs /\ swap(NoFaces, None)
    \/ \E j \in Jobs : ExecuteJobEnter(j)
    \/ \E j \in Jobs : RegisterDocument(j)
    \/ \E j \in Jobs : HoldCredits(j)
    \/ \E j \in Jobs : FetchTarget(j)
    \/ \E j \in Jobs : FetchSource(j)
    \/ \E j \in Jobs : FetchReference(j)
    \/ \E j \in Jobs : TransformStart(j)
    \/ \E j \in Jobs : TransformExit(j)
    \/ \E j \in Jobs : CreatePreview(j)
    \/ \E j \in Jobs : UploadFiles(j)
    \/ \E j \in Jobs : UpdateDocument(j)
    \/ \E j \in Jobs : DeductCredits(j)
    \/ \E j \in Jobs : MarkCompleted(j)
    \/ \E j \in Jobs : SuccessReturn(j)
    \/ \E j \in Jobs : HandleRegisterError(j)
    \/ \E j \in Jobs : HandleRefund(j)
    \/ \E j \in Jobs : HandleMarkFailed(j)
    \/ \E j \in Jobs : RemoveTempFile(j)
    \/ \E j \in Jobs : ExecuteJobFinish(j)
    \/ \E j \in Jobs : ExecuteJobUnwind(j)

Spec == Init /\ [][Next]_vars

\* The step of job j raises nothing.
Quiet(j) == proc'[j].exc = "none"

\* The service as its clients see it: flag requests, submissions, status
\* queries, the background tasks and the progress values their workers write.  Of the calls
\* in the try body of process_swap_job only the downloads fail here; the
\* except clauses and the cleanup fail as they can.
NextQuery ==
    \/ \E enable \in BOOLEAN : set_face_enhance(enable)
    \/ \E n \in FaceCounts : n_submitted < MaxJobs /\ swap(n, None)
    \/ \E job_id \in 1..MaxJobs : get_job_status(job_id)
    \/ get_latest_job_status
    \/ \E j \in Jobs : ExecuteJobEnter(j)
    \/ \E j \in Jobs : RegisterDocument(j) /\ Quiet(j)
    \/ \E j \in Jobs : HoldCredits(j) /\ Quiet(j)
    \/ \E j \in Jobs : FetchTarget(j)
    \/ \E j \in Jobs : FetchSource(j)
    \/ \E j \in Jobs : FetchReference(j)
    \/ \E j \in Jobs : TransformStart(j) /\ Quiet(j)
    \/ \E j \in Jobs : WorkerWrite(j)
    \/ \E j \in Jobs : TransformExit(j) /\ Quiet(j)
    \/ \E j \in Jobs : CreatePreview(j) /\ Quiet(j)
    \/ \E j \in Jobs : UploadFiles(j) /\ Quiet(j)
    \/ \E j \in Jobs : UpdateDocument(j) /\ Quiet(j)
    \/ \E j \in Jobs : DeductCredits(j) /\ Quiet(j)
    \/ \E j \in Jobs : MarkCompleted(j) /\ Quiet(j)
    \/ \E j \in Jobs : SuccessReturn(j)
    \/ \E j \in Jobs : HandleRegisterError(j)
    \/ \E j \in Jobs : HandleRefund(j)
    \/ \E j \in Jobs : HandleMarkFailed(j)
    \/ \E j \in Jobs : RemoveTempFile(j)
    \/ \E j \in Jobs : ExecuteJobFinish(j)
    \/ \E j \in Jobs : ExecuteJobUnwind(j)

SpecQuery == Init /\ [][NextQuery]_vars

\* The service while no background task has been started yet: the event loop
\* takes requests, every submitted job waits for its execute_job.
NextCache ==
    \/ \E n \in FaceCounts : n_submitted < MaxSubmissions /\ swap(n, None)
    \/ \E job_id \in 1..MaxPolled : get_job_status(job_id)
    \/ get_latest_job_status

SpecCache == Init /\ [][NextCache]_vars

(***************************************************************************)
(* The external worker: src/facefusion/processors/core.py.                 *)
(***************************************************************************)

\* The least element of a non-empty sequence of numbers, and the sequence
\* without one occurrence of it.
Least(s) == CHOOSE x \in {s[i] : i \in 1..Len(s)} :
                \A i \in 1..Len(s) : x <= s[i]

Without(s, x) ==
    LET k == CHOOSE i \in 1..Len(s) :
                 s[i] = x /\ \A h \in 1..(i - 1) : s[h] # x
    IN  SubSeq(s, 1, k - 1) \o SubSeq(s, k + 1, Len(s))

\* sorted(temp_frame_paths, key = os.path.basename)
RECURSIVE sorted(_)
sorted(s) ==
    IF s = <<>> THEN <<>>
    ELSE <<Least(s)>> \o sorted(Without(s, Least(s)))

\* create_queue_payloads: the paths sorted by base name, numbered from 0.
create_queue_payloads(paths) ==
    LET ordered == sorted(paths)
    IN  [i \in 1..Len(ordered) |->
            [frame_number |-> i - 1, frame_path |-> ordered[i]]]

Max(a, b) == IF a >= b THEN a ELSE b
Min(a, b) == IF a <= b THEN a ELSE b

\* Mutant of QueuePerFuture: the chunk size is the worker count times the batch
\* size, whatever the number of units.
QueuePerFuture_WorkersTimesBatch(n, thread_count, queue_count) ==
    Max(thread_count * queue_count, 1)

\* max(len(queue_payloads) // execution_thread_count * execution_queue_count, 1)
QueuePerFuture(n, thread_count, queue_count) ==
    Max((n \div thread_count) * queue_count, 1)

\* Mutant of pick_queue: the loop takes one payload more out of the queue than
\* it appends to the chunk.
pick_queue_DropsOne(q, per_future) ==
    [picked |-> SubSeq(q, 1, Min(per_future, Len(q))),
     rest |-> SubSeq(q, Min(per_future, Len(q)) + 2, Len(q))]

\* pick_queue: up to queue_per_future payloads from the head of the queue;
\* `rest` is the queue it leaves.
pick_queue(q, per_future) ==
    [picked |-> SubSeq(q, 1, Min(per_future, Len(q))),
     rest |-> SubSeq(q, Min(per_future, Len(q)) + 1, Len(q))]

\* The counter of a stage and its total.
CurrentKey(stage) == IF stage = "swapper" THEN "swapper_current"
                     ELSE "enhancer_current"
TotalKey(stage) == IF stage = "swapper" THEN "swapper_total"
                   ELSE "enhancer_total"

\* What the worker leaves alone: the service.
WorkerFrame ==
    UNCHANGED <<n_submitted, jobs, jobs_keys, jobs_links, requestVars, job_lock, proc,
                swap_status_local,
                obs, last_written, queryVars, inputVars>>

\* Mutant of StartStage: the chunk size is computed without the floor of 1.
StartStage_NoFloor(stage) ==
    /\ mpf_pc = stage
    /\ LET payloads == create_queue_payloads(temp_frame_paths) IN
       /\ queue_payloads' = payloads
       /\ unified_state' = [unified_state EXCEPT
                               !.stage = stage,
                               ![TotalKey(stage)] = Len(payloads),
                               ![CurrentKey(stage)] = 0]
       /\ queue' = payloads
       /\ queue_per_future' = (Len(payloads) \div execution_thread_count)
                                   * execution_queue_count
    /\ futures' = <<>>
    /\ mpf_pc' = "submit"
    /\ UNCHANGED progress_file
    /\ WorkerFrame

\* multi_process_frames, lines 149-158 and 180-183: the payloads, the stage's
\* counters, the queue and the chunk size.
StartStage(stage) ==
    /\ mpf_pc = stage
    /\ LET payloads == create_queue_payloads(temp_frame_paths) IN
       /\ queue_payloads' = payloads
       /\ unified_state' = [unified_state EXCEPT
                               !.stage = stage,
                               ![TotalKey(stage)] = Len(payloads),
                               ![CurrentKey(stage)] = 0]
       /\ queue' = payloads
       /\ queue_per_future' = QueuePerFuture(Len(payloads), execution_thread_count,
                                             execution_queue_count)
    /\ futures' = <<>>
    /\ mpf_pc' = "submit"
    /\ UNCHANGED progress_file
    /\ WorkerFrame

\* One iteration of `while not queue.empty()`: executor.submit(process_frames,
\* source_paths, pick_queue(queue, queue_per_future), update_progress)
SubmitChunk ==
    /\ mpf_pc = "submit"
    /\ queue # <<>>
    /\ LET got == pick_queue(queue, queue_per_future) IN
       /\ futures' = Append(futures, [payloads |-> got.picked, at |-> "pending",
                                      read |-> 0, percent |-> 0, seq |-> 0,
                                      early |-> FALSE, yielded |-> FALSE])
       /\ queue' = got.rest
    /\ UNCHANGED <<unified_state, queue_payloads, queue_per_future, mpf_pc,
                   progress_file>>
    /\ WorkerFrame

\* The loop ends and the main thread calls as_completed(futures), which first
\* collects the futures that have finished by now into a set (`early`).
SubmitDone ==
    /\ mpf_pc = "submit"
    /\ queue = <<>>
    /\ mpf_pc' = "wait"
    /\ futures' = [i \in DOMAIN futures |->
                      [futures[i] EXCEPT !.early = futures[i].at \in {"done", "failed"}]]
    /\ UNCHANGED <<unified_state, queue_payloads, queue, queue_per_future,
                   progress_file>>
    /\ WorkerFrame

(***************************************************************************)
(* A chunk on the pool.  process_frames itself lives in the processor      *)
(* modules; it handles the payloads of its chunk and reports them with one *)
(* call update_progress(n), n the chunk's unit count, or raises.           *)
(*                                                                         *)
(* update_progress (lines 160-176) takes no lock.  Its steps, each of      *)
(* which another thread can interleave with:                               *)
(*   read    unified_state[...current]            (the load of +=)         *)
(*   store   unified_state[...current] = read + n (the store of +=)        *)
(*   calc    face_progress and percent from the counter as it is now       *)
(*   write   write_progress_tempfile(percent)                              *)
(***************************************************************************)
Running(f) == f.at \in {"running", "store", "calc", "write", "flush"}
Finished(f) == f.at \in {"done", "failed"}

FutureIds == 1..Len(futures)

\* The unit count a chunk reports: update_progress(len(queue_payloads)).
ReportedUnits(f) == Len(f.payloads)

\* Chunk i finishes (`how` is "done" or "failed"): its place in the order of
\* completion is one more than the number of chunks that finished before it.
Finish(i, how) ==
    [futures EXCEPT
        ![i].at = how,
        ![i].seq = 1 + Cardinality({h \in FutureIds : Finished(futures[h])})]

\* A pool thread is free and takes the oldest pending chunk.
ChunkStart(i) ==
    /\ futures[i].at = "pending"
    /\ \A h \in 1..(i - 1) : futures[h].at # "pending"
    /\ Cardinality({h \in FutureIds : Running(futures[h])}) < execution_thread_count
    /\ futures' = [futures EXCEPT ![i].at = "running"]
    /\ UNCHANGED <<unified_state, queue_payloads, queue, queue_per_future, mpf_pc,
                   progress_file>>
    /\ WorkerFrame

\* process_frames raises.
ChunkFails(i) ==
    /\ futures[i].at = "running"
    /\ futures' = Finish(i, "failed")
    /\ UNCHANGED <<unified_state, queue_payloads, queue, queue_per_future, mpf_pc,
                   progress_file>>
    /\ WorkerFrame

\* update_progress, line 162 / 165: the counter is read.
UpdateRead(i) ==
    /\ futures[i].at = "running"
    /\ futures' = [futures EXCEPT
                      ![i].at = "store",
                      ![i].read = unified_state[CurrentKey(unified_state.stage)]]
    /\ UNCHANGED <<unified_state, queue_payloads, queue, queue_per_future, mpf_pc,
                   progress_file>>
    /\ WorkerFrame

\* update_progress, line 162 / 165: the sum is stored.
UpdateStore(i) ==
    /\ futures[i].at = "store"
    /\ unified_state' = [unified_state EXCEPT
                            ![CurrentKey(unified_state.stage)] =
                                futures[i].read + ReportedUnits(futures[i])]
    /\ futures' = [futures EXCEPT ![i].at = "calc"]
    /\ UNCHANGED <<queue_payloads, queue, queue_per_future, mpf_pc, progress_file>>
    /\ WorkerFrame

\* update_progress, line 163 / 166, and unified_progress_line, lines 116-124.
UpdateCalc(i) ==
    /\ futures[i].at = "calc"
    /\ futures' = [futures EXCEPT
                      ![i].at = "write",
                      ![i].percent =
                          Percent(unified_state.stage,
                                  unified_state[CurrentKey(unified_state.stage)],
                                  unified_state[TotalKey(unified_state.stage)])]
    /\ UNCHANGED <<unified_state, queue_payloads, queue, queue_per_future, mpf_pc,
                   progress_file>>
    /\ WorkerFrame

\* unified_progress_line, line 127: write_progress_tempfile(percent), whose
\* first step is open("temp/unified_progress.txt", "w"), line 78.  The open
\* creates the file or empties it; or it raises, and lines 80-81 print the
\* error and return, so that update_progress returns and the chunk goes on.
UpdateOpen(i) ==
    /\ futures[i].at = "write"
    /\ \/ /\ progress_file' = Some(<<>>)
          /\ futures' = [futures EXCEPT ![i].at = "flush"]
       \/ /\ UNCHANGED progress_file
          /\ futures' = Finish(i, "done")
    /\ UNCHANGED <<unified_state, queue_payloads, queue, queue_per_future, mpf_pc>>
    /\ WorkerFrame

\* write_progress_tempfile, line 79: f.write(str(percent)) and the close of
\* the file put the text into the file; or the write raises, the file stays
\* empty and lines 80-81 print the error.
UpdateWrite(i) ==
    /\ futures[i].at = "flush"
    /\ \/ progress_file' = Some(str(futures[i].percent))
       \/ UNCHANGED progress_file
    /\ futures' = Finish(i, "done")
    /\ UNCHANGED <<unified_state, queue_payloads, queue, queue_per_future, mpf_pc>>
    /\ WorkerFrame

\* Mutant of PollProgress: read_progress_tempfile has no except clause.
PollProgress_NoExcept ==
    /\ mpf_pc \notin {"raised", "finished"}
    /\ response' = [kind |-> "progress", exc |-> ReadAttempt.exc,
                    progress |-> ReadAttempt.value]
    /\ UNCHANGED <<serviceVars, expected_progress, workerVars>>

\* The service reads the progress file while the worker runs: the call
\* read_progress_tempfile() of get_job_status (api.py 86).
PollProgress ==
    /\ mpf_pc \notin {"raised", "finished"}
    /\ response' = [kind |-> "progress", exc |-> "none",
                    progress |-> read_progress_tempfile]
    /\ UNCHANGED <<serviceVars, expected_progress, workerVars>>

\* as_completed (concurrent.futures): the futures that had finished when it was
\* called come first, in the order of iteration of a set, which is any order;
\* the others follow in their order of completion.
NextYielded(i) ==
    /\ Finished(futures[i])
    /\ ~futures[i].yielded
    /\ \/ futures[i].early
       \/ \A h \in FutureIds \ {i} :
              /\ futures[h].early => futures[h].yielded
              /\ Finished(futures[h]) /\ futures[h].seq < futures[i].seq
                     => futures[h].yielded

\* `for future_done in as_completed(futures): future_done.result()` on a chunk
\* that returned: the loop goes on.
ObserveDone(i) ==
    /\ mpf_pc = "wait"
    /\ NextYielded(i)
    /\ futures[i].at = "done"
    /\ futures' = [futures EXCEPT ![i].yielded = TRUE]
    /\ UNCHANGED <<unified_state, queue_payloads, queue, queue_per_future, mpf_pc,
                   progress_file>>
    /\ WorkerFrame

\* as_completed yields a future whose result() raises: the main thread leaves
\* the loop with that chunk's error, and the executor's shutdown(wait=True)
\* waits for the chunks still queued or running.
ObserveFailure(i) ==
    /\ mpf_pc = "wait"
    /\ NextYielded(i)
    /\ futures[i].at = "failed"
    /\ futures' = [futures EXCEPT ![i].yielded = TRUE]
    /\ mpf_pc' = "draining"
    /\ UNCHANGED <<unified_state, queue_payloads, queue, queue_per_future,
                   progress_file>>
    /\ WorkerFrame

\* Every chunk has finished and one had raised: multi_process_frames raises.
StageRaises ==
    /\ mpf_pc = "draining"
    /\ \A i \in FutureIds : Finished(futures[i])
    /\ mpf_pc' = "raised"
    /\ UNCHANGED <<unified_state, queue_payloads, queue, queue_per_future, futures,
                   progress_file>>
    /\ WorkerFrame

\* Mutant of StageReturns: multi_process_frames returns as soon as one chunk's
\* result has been taken.
StageReturns_AfterFirstResult ==
    /\ mpf_pc = "wait"
    /\ \E i \in FutureIds : futures[i].yielded
    /\ mpf_pc' = IF unified_state.stage = "swapper" THEN "enhancer" ELSE "finished"
    /\ UNCHANGED <<unified_state, queue_payloads, queue, queue_per_future, futures,
                   progress_file>>
    /\ WorkerFrame

\* as_completed is exhausted, every result() returned: multi_process_frames
\* returns, and process_video (core.py 632-635) goes on to the next processor.
StageReturns ==
    /\ mpf_pc = "wait"
    /\ \A i \in FutureIds : futures[i].yielded
    /\ mpf_pc' = IF unified_state.stage = "swapper" THEN "enhancer" ELSE "finished"
    /\ UNCHANGED <<unified_state, queue_payloads, queue, queue_per_future, futures,
                   progress_file>>
    /\ WorkerFrame

\* The frame names 1..n in every order.
Orders(n) == {s \in [1..n -> 1..n] : \A a, b \in 1..n : a # b => s[a] # s[b]}

\* One run of the worker over a video of at least one frame: process_video
\* calls the processors only when temp_frame_paths is not empty.
InitDispatch ==
    /\ InitService
    /\ \E n \in 1..MaxStageUnits : temp_frame_paths = [i \in 1..n |-> i]
    /\ execution_thread_count \in 1..MaxStageWorkers
    /\ execution_queue_count = 1
    /\ InitWorkerLocals
    /\ mpf_pc = "swapper"

NextDispatch ==
    \/ StartStage("swapper")
    \/ StartStage("enhancer")
    \/ SubmitChunk
    \/ SubmitDone
    \/ \E i \in FutureIds : ChunkStart(i)
    \/ \E i \in FutureIds : ChunkFails(i)
    \/ \E i \in FutureIds : UpdateRead(i)
    \/ \E i \in FutureIds : UpdateStore(i)
    \/ \E i \in FutureIds : UpdateCalc(i)
    \/ \E i \in FutureIds : UpdateOpen(i)
    \/ \E i \in FutureIds : UpdateWrite(i)
    \/ PollProgress
    \/ \E i \in FutureIds : ObserveDone(i)
    \/ \E i \in FutureIds : ObserveFailure(i)
    \/ StageRaises
    \/ StageReturns

SpecDispatch == InitDispatch /\ [][NextDispatch]_vars

\* One call of multi_process_frames up to the end of its submission loop.
InitChunks ==
    /\ InitService
    /\ \E n \in 0..MaxUnits : temp_frame_paths \in Orders(n)
    /\ execution_thread_count \in 1..MaxWorkers
    /\ execution_queue_count \in 0..MaxBatch
    /\ InitWorkerLocals
    /\ mpf_pc = "swapper"

NextChunks ==
    \/ StartStage("swapper")
    \/ SubmitChunk
    \/ SubmitDone

SpecChunks == InitChunks /\ [][NextChunks]_vars

\* update_progress at the point where a chunk has stored the counter, for
\* every stage, every total and every count of completed units up to it: the
\* chunk computes the progress value and writes it to the file.
InitPercent ==
    /\ InitService
    /\ temp_frame_paths = <<>>
    /\ execution_thread_count = 1
    /\ execution_queue_count = 1
    /\ \E stage \in {"swapper", "enhancer"} :
       \E total \in 1..MaxFrames :
       \E current \in 0..total :
           unified_state =
               IF stage = "swapper"
               THEN [InitUnifiedState EXCEPT !.swapper_total = total,
                                             !.swapper_current = current]
               ELSE [InitUnifiedState EXCEPT !.stage = "enhancer",
                                             !.swapper_total = total,
                                             !.swapper_current = total,
                                             !.enhancer_total = total,
                                             !.enhancer_current = current]
    /\ queue_payloads = <<>>
    /\ queue = <<>>
    /\ queue_per_future = 1
    /\ futures = <<[payloads |-> <<>>, at |-> "calc", read |-> 0, percent |-> 0,
                    seq |-> 0, early |-> FALSE, yielded |-> FALSE]>>
    /\ mpf_pc = "wait"

NextPercent ==
    \/ \E i \in FutureIds : UpdateCalc(i)
    \/ \E i \in FutureIds : UpdateOpen(i)
    \/ \E i \in FutureIds : UpdateWrite(i)

SpecPercent == InitPercent /\ [][NextPercent]_vars

(***************************************************************************)
(* Properties of the service (Spec).                                       *)
(***************************************************************************)

\* The background task of job j is over: execute_job returned or raised.
HasEnded(j) == proc[j].pc \in {"done", "crashed"}

\* The credit hold of job j was placed: check_and_hold_user_credits returned.
HoldPlaced(j) == obs[j].calls["hold"] = 1

\* Job j is inside process_swap_job.
InSaga(j) == proc[j].pc \notin {"idle", "scheduled", "done", "crashed"}

\* Job j is inside the transformation step: from launching the external worker
\* until it has exited.
InTransformation(j) == proc[j].pc \in {"transform", "transforming"}

\* The uploads of job j that failed.
FailedUploads(j) == {u \in Uploads : obs[j].upload[u] = "failed"}

\* C1: a job whose credit hold was placed and that then fails has
\* refund_user_credits called exactly once and deduct_user_credits never,
\* whichever collaborator call fails and whatever value the hold returned.
C1_FailedJobRefundedOnce ==
    \A j \in Jobs :
        (HasEnded(j) /\ HoldPlaced(j) /\ jobs[j] # "COMPLETED")
            => /\ obs[j].attempts["refund"] = 1
               /\ obs[j].attempts["deduct"] = 0

\* C2: a job that ends in status COMPLETED (process_swap_job returned 200) has
\* had deduct_user_credits called exactly once and refund_user_credits never.
C2_CompletedJobDeductedOnce ==
    \A j \in Jobs :
        (jobs[j] = "COMPLETED" \/ proc[j].status_code = 200)
            => /\ obs[j].attempts["deduct"] = 1
               /\ obs[j].calls["deduct"] = 1
               /\ obs[j].attempts["refund"] = 0

C2_Witness ==
    \E j \in Jobs : jobs[j] = "COMPLETED" /\ HasEnded(j)

\* C3: whatever step a job fails at, every ephemeral file created for it has
\* had exactly one remove_file attempt once the job has terminated.
C3_CreatedFilesRemovedOnce ==
    \A j \in Jobs :
        HasEnded(j) => \A f \in obs[j].created : obs[j].removed[f] = 1

\* C4: when exactly one of the three uploads fails, the job ends with status
\* FAILED, the ledger entry is not recorded and deduct is not called.
C4_OneUploadFailedJobFailed ==
    \A j \in Jobs :
        (HasEnded(j) /\ Cardinality(FailedUploads(j)) = 1)
            => /\ jobs[j] = "FAILED"
               /\ obs[j].attempts["ledger"] = 0
               /\ obs[j].attempts["deduct"] = 0

\* C5: at every moment at most one job is inside the transformation step.
C5_OneJobInTransformation ==
    Cardinality({j \in Jobs : InTransformation(j)}) <= 1

\* The external worker of one job runs while another job has been scheduled.
C5_Witness ==
    \E a, b \in Jobs :
        a # b /\ proc[a].pc = "transforming" /\ proc[b].pc = "scheduled"

\* C6 (as amended): no two jobs are inside process_swap_job at the same time;
\* a job inside any saga step holds job_lock, and every other scheduled job
\* waits in front of its first step.
C6_SagaStepsSerialized ==
    /\ Cardinality({j \in Jobs : InSaga(j)}) <= 1
    /\ \A j \in Jobs : InSaga(j) => job_lock = j

\* One job is past the transformation, in the publish step, while another is
\* scheduled and waiting.
C6_Witness ==
    \E a, b \in Jobs :
        a # b /\ proc[a].pc = "upload" /\ proc[b].pc = "scheduled"

\* C6 (as stated): steps other than the transformation overlap across jobs, so
\* a job in a non-transformation step does not keep a scheduled job from
\* starting its saga.
C6_OtherStepsOverlap ==
    \A a, b \in Jobs :
        (a # b /\ InSaga(a) /\ ~InTransformation(a) /\ proc[b].pc = "scheduled")
            => ENABLED ExecuteJobEnter(b)

\* C7: the progress a status query returns for job J is the last value written
\* for J, or 0 if nothing was written for J.
C7_StatusProgressIsOwn ==
    response.kind = "status" => response.progress = expected_progress

(***************************************************************************)
(* Properties of the worker (SpecDispatch, SpecChunks).                    *)
(***************************************************************************)

\* C8: when every chunk of a stage has completed, the stage's counter equals
\* its total and the progress file holds exactly 50 after the swapper stage and
\* exactly 100 after the enhancer stage.
C8_StageEndsAtFullCount ==
    /\ mpf_pc = "enhancer"
           => /\ unified_state.swapper_current = unified_state.swapper_total
              /\ progress_file = Some(str(50))
    /\ mpf_pc = "finished"
           => /\ unified_state.enhancer_current = unified_state.enhancer_total
              /\ progress_file = Some(str(100))

\* C9: over one run of the worker the value held by the progress file never
\* decreases.
C9_ProgressNeverDecreases ==
    [][read_progress_tempfile' >= read_progress_tempfile]_vars

\* The payloads of the chunks submitted so far, in submission order.
RECURSIVE Flatten(_)
Flatten(fs) ==
    IF fs = <<>> THEN <<>> ELSE Flatten(SubSeq(fs, 1, Len(fs) - 1)) \o fs[Len(fs)].payloads

\* C10: the chunks handed to the pool partition the sorted unit list.  The
\* chunks submitted so far, followed by the queue, are the units in the order
\* of their names, each input name once, so every chunk is a contiguous run;
\* when the loop has ended the chunk sizes sum to N.
C10_ChunksPartitionSortedUnits ==
    mpf_pc \in {"submit", "wait"} =>
        LET units == Flatten(futures) \o queue IN
        /\ Len(units) = Len(temp_frame_paths)
        /\ {units[i].frame_path : i \in 1..Len(units)}
               = {temp_frame_paths[i] : i \in 1..Len(temp_frame_paths)}
        /\ \A a, b \in 1..Len(units) :
               a < b => units[a].frame_path < units[b].frame_path
        /\ \A a \in 1..Len(units) : units[a].frame_number = a - 1
        /\ mpf_pc = "wait" => queue = <<>>

\* The loop has ended with several chunks, built from frames that were listed
\* out of order.
C10_Witness ==
    /\ mpf_pc = "wait"
    /\ Len(futures) >= 2
    /\ \E a, b \in 1..Len(temp_frame_paths) :
           a < b /\ temp_frame_paths[a] > temp_frame_paths[b]

\* The sizes of the chunks submitted so far, in submission order.
ChunkSizes == [i \in 1..Len(futures) |-> Len(futures[i].payloads)]

\* C11 (as amended): with N units, W pool threads and batch size B, every
\* chunk built by multi_process_frames has max((N div W) * B, 1) units except
\* the last one, which has at least one unit and at most that many.
C11_ChunksOfUnitsPerWorkerTimesBatch ==
    mpf_pc \in {"submit", "wait"} =>
        LET size == Max((Len(temp_frame_paths) \div execution_thread_count)
                            * execution_queue_count, 1)
        IN  /\ \A i \in 1..(Len(futures) - 1) : ChunkSizes[i] = size
            /\ Len(futures) > 0 =>
                   /\ ChunkSizes[Len(futures)] >= 1
                   /\ ChunkSizes[Len(futures)] <= size
                   /\ queue # <<>> => ChunkSizes[Len(futures)] = size

\* The loop has ended with a short last chunk, and the chunk size is not the
\* worker count times the batch size.
C11_Witness ==
    /\ mpf_pc = "wait"
    /\ Len(futures) >= 2
    /\ ChunkSizes[Len(futures)] < ChunkSizes[1]
    /\ ChunkSizes[1] # execution_thread_count * execution_queue_count

\* C11 (as stated): for a batch size of at least 1, every chunk has W * B
\* units except at most the last one, which may have fewer.
C11_ChunksOfWorkersTimesBatch ==
    (mpf_pc = "wait" /\ execution_queue_count >= 1) =>
        LET size == execution_thread_count * execution_queue_count
        IN  /\ \A i \in 1..(Len(futures) - 1) : ChunkSizes[i] = size
            /\ Len(futures) > 0 => ChunkSizes[Len(futures)] <= size


(***************************************************************************)
(* Properties of the status surface (Spec).                                *)
(***************************************************************************)

\* The files process_swap_job downloads for job j.
InputFiles(j) ==
    {TargetFile} \cup {SourceFile(i) : i \in 1..faces[j]}
                 \cup {ReferenceFile(i) : i \in 1..faces[j]}

\* The hold of job j was placed and one of its downloads raised.
FetchFailed(j) ==
    HasEnded(j) /\ HoldPlaced(j) /\ ~(InputFiles(j) \subseteq obs[j].created)

\* C12: when the asset fetch of a job has failed, a later status query for
\* that job id returns a record with status FAILED that carries the error
\* message, and the hold was refunded.
C12_FetchFailureSurfaced ==
    (response.kind = "status" /\ FetchFailed(response.job))
        => /\ response.status = "FAILED"
           /\ response.output = "error"
           /\ obs[response.job].calls["refund"] = 1

\* C13: a status query for an id that is not in the cache returns the error
\* with code 404, the latest-status query returns the idle indicator when no
\* job was ever submitted, and neither step changes the cache.
C13_UnknownAndIdleQueries ==
    [][/\ \A job_id \in 1..MaxJobs :
              (get_job_status(job_id) /\ StatusOf(job_id) = "ABSENT")
                  => /\ response' = [kind |-> "error", code |-> 404]
                     /\ UNCHANGED <<jobs, jobs_keys, jobs_links>>
       /\ (get_latest_job_status /\ n_submitted = 0)
              => /\ response' = [kind |-> "idle"]
                 /\ UNCHANGED <<jobs, jobs_keys, jobs_links>>]_vars

\* An id that was never handed out has been queried while a job exists.
C13_Witness ==
    /\ response = [kind |-> "error", code |-> 404]
    /\ n_submitted >= 1

\* C14: the latest-status query returns the status of the job submitted last.
C14_LatestIsLastSubmitted ==
    [][(get_latest_job_status /\ n_submitted > 0)
           => /\ response'.kind = "status"
              /\ response'.job = n_submitted]_vars


(***************************************************************************)
(* SpecFair: the service with submissions that carry a swapId, without     *)
(* flag requests, status queries and progress reports.  Every              *)
(* background task keeps running: FastAPI runs each one on a pool thread,  *)
(* a collaborator call returns or raises, the external worker exits, and   *)
(* job_lock is handed to a waiting task once it is free for good.          *)
(***************************************************************************)
NextFair ==
    \/ \E n \in FaceCounts, s \in SwapIds \cup {None} :
           n_submitted < MaxJobs /\ swap(n, s)
    \/ \E j \in Jobs : ExecuteJobEnter(j)
    \/ \E j \in Jobs : RegisterDocument(j)
    \/ \E j \in Jobs : HoldCredits(j)
    \/ \E j \in Jobs : FetchTarget(j)
    \/ \E j \in Jobs : FetchSource(j)
    \/ \E j \in Jobs : FetchReference(j)
    \/ \E j \in Jobs : TransformStart(j)
    \/ \E j \in Jobs : TransformExit(j)
    \/ \E j \in Jobs : CreatePreview(j)
    \/ \E j \in Jobs : UploadFiles(j)
    \/ \E j \in Jobs : UpdateDocument(j)
    \/ \E j \in Jobs : DeductCredits(j)
    \/ \E j \in Jobs : MarkCompleted(j)
    \/ \E j \in Jobs : SuccessReturn(j)
    \/ \E j \in Jobs : HandleRegisterError(j)
    \/ \E j \in Jobs : HandleRefund(j)
    \/ \E j \in Jobs : HandleMarkFailed(j)
    \/ \E j \in Jobs : RemoveTempFile(j)
    \/ \E j \in Jobs : ExecuteJobFinish(j)
    \/ \E j \in Jobs : ExecuteJobUnwind(j)

\* Any step of the background task of job j.
BackgroundTask(j) ==
    /\ j \in Jobs
    /\ \/ ExecuteJobEnter(j) \/ RegisterDocument(j) \/ HoldCredits(j)
       \/ FetchTarget(j) \/ FetchSource(j) \/ FetchReference(j)
       \/ TransformStart(j) \/ TransformExit(j) \/ CreatePreview(j)
       \/ UploadFiles(j) \/ UpdateDocument(j) \/ DeductCredits(j)
       \/ MarkCompleted(j) \/ SuccessReturn(j) \/ HandleRegisterError(j)
       \/ HandleRefund(j) \/ HandleMarkFailed(j) \/ RemoveTempFile(j)
       \/ ExecuteJobFinish(j) \/ ExecuteJobUnwind(j)

SpecFair ==
    /\ Init
    /\ [][NextFair]_vars
    /\ \A j \in 1..MaxJobs : WF_vars(BackgroundTask(j))

\* C15: the transformation of a job is invoked with the enhancer stage
\* exactly when the flag set_face_enhance last stored is true.
C15_ToggleControlsEnhancer ==
    [][\A j \in Jobs :
           (TransformStart(j) /\ proc'[j].pc = "transforming")
               => ("face_enhancer" \in obs'[j].processors <=> enable_face_enhance)]_vars


\* The hold of job j is open: check_and_hold_user_credits returned and neither
\* deduct_user_credits nor refund_user_credits has been called since.
OpenHold(j) ==
    /\ HoldPlaced(j)
    /\ obs[j].attempts["deduct"] = 0
    /\ obs[j].attempts["refund"] = 0

\* The id the hold of job j is placed under:
\* swap_doc_id = params.get("swapId") or str(uuid.uuid4())
DocId(j) == IF swapId[j] # None THEN <<"swapId", swapId[j][1]>> ELSE <<"uuid4", j>>

\* C17: at every moment at most one hold is open under one id.
C17_OneOpenHoldPerId ==
    \A a, b \in Jobs : (OpenHold(a) /\ OpenHold(b) /\ DocId(a) = DocId(b)) => a = b

\* C19: every submitted job eventually has a terminal status in the cache.
C19_EveryJobTerminates ==
    \A j \in 1..MaxJobs :
        (StatusOf(j) = "IN_PROGRESS") ~> (StatusOf(j) \in {"COMPLETED", "FAILED"})


(***************************************************************************)
(* Properties of the saga's order and of the status cache (Spec).          *)
(***************************************************************************)

Terminal == {"COMPLETED", "FAILED"}

\* C16: in the cache a job's status only moves from IN_PROGRESS to one
\* terminal status: no step changes a terminal status to the other one or
\* back to IN_PROGRESS, and no step writes a terminal status a second time.
C16_StatusMovesForward ==
    [][\A j \in Jobs :
           jobs[j] \in Terminal
               => /\ jobs'[j] \in {jobs[j], "ABSENT"}
                  /\ ~ExecuteJobFinish(j)]_vars

\* One job has ended COMPLETED and another one FAILED.
C16_Witness ==
    \E a, b \in Jobs : jobs[a] = "COMPLETED" /\ jobs[b] = "FAILED"

\* check_and_hold_user_credits of job j raised.
HoldFailed(j) == obs[j].attempts["hold"] = 1 /\ obs[j].calls["hold"] = 0

\* C18: a job whose credit hold raised ends with status FAILED, with no
\* refund or deduct call, no download, no transformation and no upload.
C18_HoldFailureAborts ==
    \A j \in Jobs :
        (HasEnded(j) /\ HoldFailed(j))
            => /\ jobs[j] = "FAILED"
               /\ obs[j].attempts["refund"] = 0
               /\ obs[j].attempts["deduct"] = 0
               /\ obs[j].created = {}
               /\ obs[j].processors = {}
               /\ \A u \in Uploads : obs[j].upload[u] = "none"

\* C20: within one job the hold is placed before any download, the worker is
\* launched only after every download succeeded, the uploads start only after
\* the worker exited with code 0, the ledger entry is written only after all
\* three uploads succeeded, deduct is called only after the ledger entry, and
\* the job is marked completed only after deduct.
C20_StepsInOrder ==
    \A j \in Jobs :
        /\ (proc[j].pc \in {"fetch_target", "fetch_source", "fetch_reference"}
                \/ obs[j].created # {})
               => HoldPlaced(j)
        /\ (InTransformation(j) \/ obs[j].processors # {})
               => InputFiles(j) \subseteq obs[j].created
        /\ (proc[j].pc = "upload" \/ \E u \in Uploads : obs[j].upload[u] # "none")
               => (obs[j].processors # {} /\ OutputFile \in obs[j].created)
        /\ (proc[j].pc = "ledger" \/ obs[j].attempts["ledger"] > 0)
               => \A u \in Uploads : obs[j].upload[u] = "ok"
        /\ (proc[j].pc = "deduct" \/ obs[j].attempts["deduct"] > 0)
               => obs[j].calls["ledger"] = 1
        /\ (proc[j].pc \in {"mark_completed", "success_return"}
                \/ jobs[j] = "COMPLETED")
               => obs[j].calls["deduct"] = 1

\* A job is about to be marked completed.
C20_Witness ==
    \E j \in Jobs : proc[j].pc = "mark_completed"


(***************************************************************************)
(* Properties of one run of the worker: failures, stages, the progress     *)
(* file (SpecDispatch).                                                    *)
(***************************************************************************)

\* C22: once one chunk has failed, no further chunk is submitted to the pool
\* and no chunk that had not yet started begins to execute.
C22_NoWorkAfterFailure ==
    [][(\E i \in FutureIds : futures[i].at = "failed")
           => /\ Len(futures') = Len(futures)
              /\ \A i \in FutureIds :
                     futures[i].at = "pending" => futures'[i].at = "pending"]_vars

\* The chunk whose error multi_process_frames raises: the failed chunk whose
\* result() the main thread called.
RaisedChunks == {i \in FutureIds : futures[i].at = "failed" /\ futures[i].yielded}

\* C23: multi_process_frames returns or raises only after every chunk it
\* submitted has finished; when a chunk raised it raises the error of the
\* first failed chunk to complete, and when none raised it returns.
C23_RaisesFirstFailure ==
    /\ mpf_pc \in {"raised", "enhancer", "finished"}
           => \A i \in FutureIds : Finished(futures[i])
    /\ mpf_pc = "raised"
           => \E i \in RaisedChunks :
                  \A h \in FutureIds :
                      futures[h].at = "failed" => futures[i].seq <= futures[h].seq
    /\ mpf_pc \in {"enhancer", "finished"}
           => \A i \in FutureIds : futures[i].at = "done"

\* The part of C23 that holds: the call ends only when every chunk has
\* finished, it raises exactly when a chunk raised, and the error is that of
\* a failed chunk.
C23_WaitsForEveryChunk ==
    /\ mpf_pc \in {"raised", "enhancer", "finished"}
           => \A i \in FutureIds : Finished(futures[i])
    /\ mpf_pc = "raised" => RaisedChunks # {}
    /\ mpf_pc \in {"enhancer", "finished"}
           => \A i \in FutureIds : futures[i].at = "done"

\* C24: the two stages never overlap.  While the stage is the swapper's the
\* enhancer's counters are untouched; the enhancer stage is entered only from
\* a state in which the swapper's queue is empty and each of its chunks is
\* done; and every chunk that starts belongs to the stage in progress.
C24_StagesNeverOverlap ==
    /\ [](unified_state.stage = "swapper"
             => /\ unified_state.enhancer_total = 0
                /\ unified_state.enhancer_current = 0)
    /\ [][mpf_pc' = "enhancer" /\ mpf_pc # "enhancer"
             => /\ queue = <<>>
                /\ \A i \in FutureIds : futures[i].at = "done"]_vars
    /\ [][unified_state'.stage # unified_state.stage
             => /\ mpf_pc = "enhancer"
                /\ \A i \in FutureIds : futures[i].at = "done"]_vars

\* A chunk of the secondary stage is executing.
C24_Witness ==
    /\ unified_state.stage = "enhancer"
    /\ \E i \in FutureIds : Running(futures[i])

\* C26: reading and writing the progress file never raise.  A read returns a
\* value of 0..100 without an exception, and 0 when the file does not exist
\* or its text cannot be parsed; a chunk whose write of the file fails goes on
\* to completion as if the write had succeeded.
C26_ProgressChannelNeverRaises ==
    /\ [](response.kind = "progress"
             => response.exc = "none" /\ response.progress \in 0..100)
    /\ [][PollProgress => (ReadAttempt.exc # "none" => response'.progress = 0)]_vars
    /\ [][\A i \in FutureIds :
             futures[i].at \in {"write", "flush"} /\ i \in DOMAIN futures'
                 => futures'[i].at \in {"write", "flush", "done"}]_vars

\* A read has met the file emptied by a write in progress and returned 0.
C26_Witness ==
    /\ response.kind = "progress"
    /\ response.progress = 0
    /\ progress_file = Some(<<>>)
    /\ \E i \in FutureIds : futures[i].at = "flush"
    /\ \E i \in FutureIds : futures[i].at = "done"


\* floor(50 * completed / total) for the swapper, 50 more for the enhancer.
FloorPercent(stage, current, total) ==
    IF stage = "swapper" THEN (50 * current) \div total
    ELSE 50 + (50 * current) \div total

\* C25: every value written to the progress file lies in 0..50 while the
\* stage is the swapper's and in 50..100 while it is the enhancer's, and is
\* floor(50 * completed / total), respectively 50 more.
C25_WrittenValueIsFloor ==
    /\ \A i \in FutureIds :
           futures[i].at \in {"write", "flush", "done"}
               => /\ futures[i].percent =
                         FloorPercent(unified_state.stage,
                                      unified_state[CurrentKey(unified_state.stage)],
                                      unified_state[TotalKey(unified_state.stage)])
                  /\ unified_state.stage = "swapper" => futures[i].percent \in 0..50
                  /\ unified_state.stage = "enhancer" => futures[i].percent \in 50..100
    /\ ReadAttempt.exc = "none" => ReadAttempt.value \in 0..100

\* The part of C25 that holds: the range of the written values.
C25_WrittenValueInRange ==
    /\ \A i \in FutureIds :
           futures[i].at \in {"write", "flush", "done"}
               => /\ unified_state.stage = "swapper" => futures[i].percent \in 0..50
                  /\ unified_state.stage = "enhancer" => futures[i].percent \in 50..100
    /\ ReadAttempt.exc = "none" => ReadAttempt.value \in 0..100


(***************************************************************************)
(* Properties of the submission loop (SpecChunks).                         *)
(***************************************************************************)

\* C28: the submission loop terminates for every unit count, worker count and
\* batch size.  The chunk size is at least 1, every iteration takes at least
\* one unit out of the queue, the chunks and the queue never hold more than
\* the N units, and for N = 0 the loop ends without a chunk.
C28_SubmissionLoopTerminates ==
    /\ [](mpf_pc = "submit" => queue_per_future >= 1)
    /\ [][SubmitChunk => Len(queue') < Len(queue)]_vars
    /\ [](mpf_pc \in {"submit", "wait"}
             => Len(futures) + Len(queue) <= Len(temp_frame_paths))
    /\ [](mpf_pc = "wait" => queue = <<>>)
    /\ [](mpf_pc = "wait" /\ temp_frame_paths = <<>> => futures = <<>>)

\* The loop has ended for a batch size of 0: one chunk per unit.
C28_Witness ==
    /\ mpf_pc = "wait"
    /\ execution_queue_count = 0
    /\ Len(temp_frame_paths) >= 2
    /\ Len(futures) = Len(temp_frame_paths)


(***************************************************************************)
(* C29: a job that was submitted and has not reached a terminal status is  *)
(* never reported as not found by GET /status/{job_id}, however many jobs  *)
(* are submitted while it waits.                                           *)
(***************************************************************************)
C29_WaitingJobIsNeverNotFound ==
    [][\A job_id \in 1..MaxPolled :
          (get_job_status(job_id) /\ job_id \in Jobs /\ ~HasEnded(job_id))
              => response'.kind # "error"]_vars

\* C29, its parenthesis: the cache never holds more than maxsize entries, and
\* holds exactly the ids whose status is not "ABSENT".
C29_CacheHoldsAtMostMaxsize ==
    /\ Len(jobs_links) <= maxsize
    /\ \A j \in Jobs :
          (jobs[j] # "ABSENT") <=> (\E i \in 1..Len(jobs_links) : jobs_links[i] = j)

(***************************************************************************)
(* C30: every cache entry with status IN_PROGRESS has an execute_job       *)
(* scheduled for it (waiting, running, or ended without writing the entry),*)
(* including when the request has no faces list.                           *)
(***************************************************************************)
C30_InProgressEntryIsScheduled ==
    \A j \in Jobs : jobs[j] = "IN_PROGRESS" => proc[j].pc # "idle"

(***************************************************************************)
(* C21: an exception of remove_file is swallowed.  The loop of the finally *)
(* block goes on, so every entry of temp_files_to_clean gets its one       *)
(* attempt, in order; and a job one of whose deletes failed returns what   *)
(* it was about to return: it ends COMPLETED with every file attempted.    *)
(***************************************************************************)
C21_RemoveFailureIsSwallowed ==
    \A j \in Jobs :
        /\ At(j, "finally") =>
              \A k \in 1..Len(proc[j].temp_files_to_clean) :
                  obs[j].removed[proc[j].temp_files_to_clean[k]]
                      = IF k < proc[j].clean_i THEN 1 ELSE 0
        /\ obs[j].remove_raised =>
              /\ proc[j].pc \in {"finally", "done"}
              /\ At(j, "finally") => proc[j].status_code = 200
              /\ HasEnded(j) =>
                    /\ jobs[j] = "COMPLETED"
                    /\ \A k \in 1..Len(AllTempFiles(j)) :
                          obs[j].removed[AllTempFiles(j)[k]] = 1

\* A job has ended after the delete of its first file failed.
C21_Witness ==
    \E j \in Jobs :
        /\ HasEnded(j)
        /\ obs[j].remove_raised
        /\ jobs[j] = "COMPLETED"

(***************************************************************************)
(* C27: every write to the job status cache, the registration by swap and  *)
(* the terminal status written by execute_job, is made by a thread that    *)
(* holds the lock: core.job_lock, the only lock ever taken, is held by the *)
(* job whose entry is written.                                             *)
(***************************************************************************)
C27_CacheWritesHoldTheLock ==
    [][\A j \in 1..MaxJobs :
          StatusOf(j)' # StatusOf(j) => job_lock = j]_vars

\* C27, the half that holds: the terminal status is written under job_lock.
C27_TerminalWriteHoldsTheLock ==
    [][\A j \in 1..MaxJobs :
          (StatusOf(j)' # StatusOf(j) /\ StatusOf(j) # "ABSENT") => job_lock = j]_vars

(***************************************************************************)
(* C31: a status query that reports a job as COMPLETED reports progress    *)
(* 100 for it, whatever other jobs have been submitted or are running.     *)
(***************************************************************************)
C31_CompletedJobReportsHundred ==
    (response.kind = "status" /\ response.status = "COMPLETED")
        => response.progress = 100

\* C31 for a job whose own worker wrote 100 last: the value reported is still
\* the one the progress file holds now, which another job's worker may have
\* written since.
C31_OwnHundredIsReported ==
    (/\ response.kind = "status"
     /\ response.status = "COMPLETED"
     /\ last_written[response.job] = 100)
        => response.progress = 100

=============================================================================
